---- MODULE Spec2Model ----
(***************************************************************************)
(* The ShaderAnimation component of                                        *)
(* src/frontend/src/components/ui/shader-lines.tsx: a React component that *)
(* owns a three.js renderer, a record of shader uniforms and a             *)
(* requestAnimationFrame loop (animate), driven by the props of its host   *)
(* (src/frontend/src/app/page.tsx).                                        *)
(*                                                                         *)
(* Numbers: the code's floats are modelled as integers in thousandths      *)
(* (time 1.0 is 1000, the ripple step 0.04 is 40).  Summing 0.04 in IEEE   *)
(* doubles passes 1.0 on the 25th addition, as 25 * 40 >= 1000 does.       *)
(* progress is in hundredths.                                              *)
(***************************************************************************)
EXTENDS Integers

(* ---------------------------- bounds ---------------------------------- *)
\* at most MaxIdleTicks runs of animate begin with no ripple in flight;
\* the ticks of a ripple are bounded by the ripple's length
MaxIdleTicks == 5
\* the host re-renders the component at most MaxRenders times
MaxRenders == 2
\* a behaviour follows the text timer for at most MaxTextTicks ticks
MaxTextTicks == 2

\* under Strict Mode a behaviour has at most MaxStrictRenders host re-renders
MaxStrictRenders == 1

\* the behaviours checked for progress have at most MaxFairRenders host re-renders
MaxFairRenders == 1

\* with two instances: the greatest number of re-renders of each
MaxTwoRenders == 1

\* with two instances: the greatest number of frames of each after its
\* initialization
MaxTwoTicks == 3

\* window.devicePixelRatio of the display the model runs on
DevicePixelRatio == 2

(* ------------------------ program constants --------------------------- *)
\* uniforms.time starts at 1.0
TimeInit == 1000
\* let animationSpeed = 0.015
AnimationSpeed == 15
\* animationSpeed = 0.05 while a ripple is in flight
RippleAnimationSpeed == 50
\* rippleTimeRef.current += 0.04
RippleInc == 40
\* if (rippleTimeRef.current >= 1.0)
RippleEnd == 1000
\* textTimeRef.current += 0.015
TextInc == 15

(* ------------------------------ inputs -------------------------------- *)
\* the (progress, currentStep, totalSteps) values a host supplies
HostVals ==
    { [progress |-> 0,  currentStep |-> 1, totalSteps |-> 3],
      [progress |-> 50, currentStep |-> 2, totalSteps |-> 4] }

\* container.getBoundingClientRect() sizes
Sizes == { <<800, 600>>, <<1920, 1080>> }

\* the container's box at the first render
InitialSize == <<800, 600>>

\* the props of one render of ShaderAnimation (fadeOut only feeds the
\* motion.div opacity and is not part of the state machine)
PropsSet ==
    [ progress : {h.progress : h \in HostVals},
      currentStep : {h.currentStep : h \in HostVals},
      totalSteps : {h.totalSteps : h \in HostVals},
      rippleEffect : BOOLEAN,
      textAnimation : BOOLEAN,
      isCompleteRipple : BOOLEAN ]

HostProps ==
    { p \in PropsSet :
        [progress |-> p.progress, currentStep |-> p.currentStep,
         totalSteps |-> p.totalSteps] \in HostVals }

\* what initThreeJS and animate read of the props of the render that
\* defined them
Closure(p) ==
    [ progress |-> p.progress,
      currentStep |-> p.currentStep,
      totalSteps |-> p.totalSteps,
      isCompleteRipple |-> p.isCompleteRipple ]

\* sceneRef.current.uniforms before initThreeJS has run
NoUniforms == [none |-> TRUE]

\* no scene has been replaced by a later initThreeJS
NoScene == [none |-> TRUE]

\* the box of a container that is no longer in the document
DetachedRect == <<0, 0>>

\* the page holds no second ShaderAnimation
NoInstance == [none |-> TRUE]

VARIABLES
    phase,              \* "rendered": first render done, effects not yet run; "mounted";
                        \* "unmounted": removed from the tree, containerRef.current is null
    steps,              \* the statement groups of animate that have run in the frame
                        \* callback under way; empty between callbacks
    glslCompiles,       \* the GPU driver compiles and links the two shaders
    other,              \* a second ShaderAnimation mounted in the same page (NoInstance when
                        \* the page holds one): its phase, props, closure and mutable state
    strict,             \* React runs the effects of the mount twice (development Strict Mode)
    props,              \* the props of the latest committed render
    first,              \* the first render's props that initThreeJS and animate close over and read
    THREE,              \* window.THREE is loaded
    script,             \* the mount effect's variable script is not null: its latest run appended an element
    scriptInHead,       \* that element is a child of document.head
    loads,              \* number of appended script elements whose onload has not fired yet
    rect,               \* the container's bounding box
    rendererSize,       \* renderer.domElement width and height (<<0,0>> before init)
    uniforms,           \* sceneRef.current.uniforms
    animationId,        \* sceneRef.current.animationId: 0 (null) or the loop whose request it holds
    pending,            \* the loops (1: first initThreeJS, 2: second) with a requested frame callback
    prev,               \* the scene of the first initThreeJS once a second one has replaced sceneRef.current
    disposed,           \* renderer.dispose() has been called on sceneRef.current.renderer
    listeners,          \* number of "resize" listeners of this instance registered on window
    error,              \* "none", or the exception a handler of this instance has thrown
    rippleTimeRef,
    isRipplingRef,
    textTimeRef,
    isTextAnimatingRef,
    noMoreRingsRef,
    hasCompletedRef,
    ticks,              \* history: number of runs of animate
    idleTicks,          \* history: number of runs of animate that began with no ripple in flight
    renders,            \* history: number of host re-renders
    rippleFlag,         \* history: "none" until a ripple request fires, then "completion" or
                        \* "plain": the isCompleteRipple the host supplied with the request that fired last
    ignoredEdge,        \* history: a false->true edge of rippleEffect arrived during a ripple
    heldRequest         \* history: a re-render supplied rippleEffect = true again with no ripple in flight

vars == << phase, steps, strict, glslCompiles, other, props, first, THREE, script, scriptInHead, loads,
           rect, rendererSize, uniforms, animationId, pending, prev, disposed,
           listeners, error, rippleTimeRef, isRipplingRef, textTimeRef,
           isTextAnimatingRef, noMoreRingsRef, hasCompletedRef,
           ticks, idleTicks, renders, rippleFlag, ignoredEdge, heldRequest >>

hasUniforms == uniforms # NoUniforms

(* ------------------------------ Init ---------------------------------- *)
Setup ==
    /\ phase = "rendered"
    /\ steps = <<>>
    /\ props \in HostProps
    /\ first = Closure(props)
    /\ THREE \in BOOLEAN
    /\ script = FALSE
    /\ scriptInHead = FALSE
    /\ loads = 0
    /\ rect = InitialSize
    /\ rendererSize = <<0, 0>>
    /\ uniforms = NoUniforms
    /\ animationId = 0
    /\ pending = {}
    /\ prev = NoScene
    /\ disposed = FALSE
    /\ listeners = 0
    /\ error = "none"
    /\ rippleTimeRef = 0
    /\ isRipplingRef = FALSE
    /\ textTimeRef = 0
    /\ isTextAnimatingRef = FALSE
    /\ noMoreRingsRef = FALSE
    /\ hasCompletedRef = FALSE
    /\ ticks = 0
    /\ idleTicks = 0
    /\ renders = 0
    /\ rippleFlag = "none"
    /\ ignoredEdge = FALSE
    /\ heldRequest = FALSE

\* a production build on a GPU that compiles the shaders: the effects of
\* the mount run once
Init == Setup /\ strict = FALSE /\ glslCompiles = TRUE /\ other = NoInstance


(* --------------------- the component's mutable state ------------------ *)
\* the refs and the uniforms record, as one value the handlers transform
Machine ==
    [ uniforms |-> uniforms,
      rendererSize |-> rendererSize,
      rippleTimeRef |-> rippleTimeRef,
      isRipplingRef |-> isRipplingRef,
      textTimeRef |-> textTimeRef,
      isTextAnimatingRef |-> isTextAnimatingRef,
      noMoreRingsRef |-> noMoreRingsRef,
      hasCompletedRef |-> hasCompletedRef,
      animationId |-> animationId,
      pending |-> pending,
      prev |-> prev,
      disposed |-> disposed,
      listeners |-> listeners,
      script |-> script,
      scriptInHead |-> scriptInHead,
      loads |-> loads,
      error |-> error ]

SetMachine(m) ==
    /\ uniforms' = m.uniforms
    /\ rendererSize' = m.rendererSize
    /\ rippleTimeRef' = m.rippleTimeRef
    /\ isRipplingRef' = m.isRipplingRef
    /\ textTimeRef' = m.textTimeRef
    /\ isTextAnimatingRef' = m.isTextAnimatingRef
    /\ noMoreRingsRef' = m.noMoreRingsRef
    /\ hasCompletedRef' = m.hasCompletedRef
    /\ animationId' = m.animationId
    /\ pending' = m.pending
    /\ prev' = m.prev
    /\ disposed' = m.disposed
    /\ listeners' = m.listeners
    /\ script' = m.script
    /\ scriptInHead' = m.scriptInHead
    /\ loads' = m.loads
    /\ error' = m.error

(* ----------------------------- initThreeJS ---------------------------- *)
\* faulty variant: the uniforms are built with the ripple and the text
\* timer switched on
NewUniforms_RequestsOn(p) ==
    [ time |-> TimeInit,
      resolution |-> <<0, 0>>,
      progress |-> p.progress,
      currentStep |-> p.currentStep,
      totalSteps |-> p.totalSteps,
      rippleTime |-> 0,
      isRippling |-> 1,
      textTime |-> 0,
      isTextAnimating |-> 1,
      freezeTime |-> 0 ]

\* const uniforms = {...}: built from the props the closure holds
NewUniforms(p) ==
    [ time |-> TimeInit,
      resolution |-> <<0, 0>>,
      progress |-> p.progress,
      currentStep |-> p.currentStep,
      totalSteps |-> p.totalSteps,
      rippleTime |-> 0,
      isRippling |-> 0,
      textTime |-> 0,
      isTextAnimating |-> 0,
      freezeTime |-> 0 ]

\* renderer.setSize(width, height) after setPixelRatio(devicePixelRatio):
\* the canvas is width * ratio by height * ratio device pixels
CanvasSize(sz) == << sz[1] * DevicePixelRatio, sz[2] * DevicePixelRatio >>

\* faulty variant: the resolution uniform is given the container's box, in
\* CSS pixels, and not the size of the canvas
onWindowResize_BoxAsResolution(m, sz) ==
    [m EXCEPT !.rendererSize = CanvasSize(sz), !.uniforms.resolution = sz]

\* faulty variant: the renderer is resized and the uniform is left as it was
onWindowResize_StaleUniform(m, sz) ==
    [m EXCEPT !.rendererSize = CanvasSize(sz)]

\* onWindowResize: renderer.setSize(rect), then the resolution uniform is
\* read back from the canvas
onWindowResize(m, sz) ==
    LET sized == [m EXCEPT !.rendererSize = CanvasSize(sz)]
    IN  [sized EXCEPT !.uniforms.resolution = sized.rendererSize]

(* ------------------------------ animate ------------------------------- *)
\* if (rippleTimeRef.current >= 1.0)
RippleFinished(rt) == rt >= RippleEnd

\* if (isCompleteRipple): the value animate's closure holds
ShouldFreeze(p) == p.isCompleteRipple

\* the uniforms after the "Reset ripple after animation completes" block
RippleReset(u) == [u EXCEPT !.isRippling = 0]

\* the block under "Only freeze if this is the complete ripple"
Freeze(u) == [u EXCEPT !.freezeTime = u.time]

\* faulty variant: the hasCompletedRef test is dropped
AdvanceTime_Always(u, completed, speed) ==
    [u EXCEPT !.time = @ + speed]

\* if (!hasCompletedRef.current) uniforms.time.value += animationSpeed
AdvanceTime(u, completed, speed) ==
    IF ~completed THEN [u EXCEPT !.time = @ + speed] ELSE u

\* uniforms.progress.value = progress, ... at the end of animate: the
\* closure's props
CopyProps(u, p) ==
    [u EXCEPT !.progress = p.progress,
              !.currentStep = p.currentStep,
              !.totalSteps = p.totalSteps]

\* faulty variant: the ripple speed is used on every tick
Speed_AlwaysFast(rippling) == RippleAnimationSpeed

\* let animationSpeed = 0.015; ... animationSpeed = 0.05 inside the ripple block
Speed(rippling) ==
    IF rippling THEN RippleAnimationSpeed ELSE AnimationSpeed

\* the statements of animate between its frame request and the copy of the
\* props: the ripple block, the text block and the advance of time
AdvanceState(m, p) ==
    LET rippling == m.isRipplingRef
        rt1      == IF rippling THEN m.rippleTimeRef + RippleInc
                                ELSE m.rippleTimeRef
        speed    == Speed(rippling)
        done     == rippling /\ RippleFinished(rt1)
        freeze   == done /\ ShouldFreeze(p)
        u1       == IF rippling THEN [m.uniforms EXCEPT !.rippleTime = rt1]
                                ELSE m.uniforms
        u2       == IF done THEN RippleReset(u1) ELSE u1
        u3       == IF freeze THEN Freeze(u2) ELSE u2
        completed == m.hasCompletedRef \/ freeze
        tt1      == IF m.isTextAnimatingRef THEN m.textTimeRef + TextInc
                                            ELSE m.textTimeRef
        u4       == IF m.isTextAnimatingRef THEN [u3 EXCEPT !.textTime = tt1]
                                            ELSE u3
        u5       == AdvanceTime(u4, completed, speed)
    IN  [ m EXCEPT !.uniforms = u5,
                   !.rippleTimeRef = IF done THEN 0 ELSE rt1,
                   !.isRipplingRef = rippling /\ ~done,
                   !.textTimeRef = tt1,
                   !.noMoreRingsRef = m.noMoreRingsRef \/ freeze,
                   !.hasCompletedRef = completed ]

\* uniforms.progress.value = progress, ...: the statements of animate just
\* before the draw
CopyState(m, p) == [m EXCEPT !.uniforms = CopyProps(m.uniforms, p)]

\* one run of animate on machine m, with p the props its closure holds
animate(m, p) == CopyState(AdvanceState(m, p), p)

\* the loop the latest initThreeJS started: 0 before any, 1, or 2 once a
\* second initThreeJS has replaced sceneRef.current
CurrentLoop(m) ==
    IF m.uniforms = NoUniforms THEN 0
    ELSE IF m.prev = NoScene THEN 1 ELSE 2

\* The frame callback of loop id. Its first statement stores the new request
\* in sceneRef.current.animationId, whichever loop runs it; the rest of
\* animate works on the uniforms and the renderer of the initThreeJS call
\* that defined it, and on the refs of the component.
RunLoop(m, id, p) ==
    LET r == [m EXCEPT !.animationId = id, !.pending = @ \cup {id}]
    IN  IF id = CurrentLoop(m)
        THEN animate(r, p)
        ELSE LET a == animate([r EXCEPT !.uniforms = m.prev.uniforms], p)
             IN  [a EXCEPT !.prev.uniforms = a.uniforms,
                           !.uniforms = m.uniforms]

\* if (!containerRef.current || !window.THREE) return
InitGuard(container, three) == container /\ three

\* initThreeJS: returns when the container or window.THREE is missing; else
\* new uniforms and renderer replace the ones in sceneRef.current (which
\* stay alive in the closures of the earlier call), onWindowResize() runs
\* and is registered on window, and animate() runs once, synchronously.
\* p is the first render's props (the mount effect's closure).
initThreeJS(m, p, sz, container, three) ==
    IF ~InitGuard(container, three) THEN m
    ELSE LET id == CurrentLoop(m) + 1
             s  == [m EXCEPT !.prev = IF m.uniforms = NoUniforms THEN @
                                      ELSE [ uniforms |-> m.uniforms,
                                             rendererSize |-> m.rendererSize,
                                             disposed |-> m.disposed ],
                             !.uniforms = NewUniforms(p),
                             !.disposed = FALSE,
                             !.animationId = 0,
                             !.listeners = @ + 1]
         IN  RunLoop(onWindowResize(s, sz), id, p)

(* ------------------------- the mount effect --------------------------- *)
\* useEffect(() => {...}, []): a script element is appended when window.THREE
\* is missing, else initThreeJS runs if the container is attached
MountEffect(m, p, sz, container, three) ==
    IF ~three
    THEN [m EXCEPT !.script = TRUE, !.scriptInHead = TRUE, !.loads = @ + 1]
    ELSE IF container
         THEN [initThreeJS(m, p, sz, container, three) EXCEPT !.script = FALSE]
         ELSE [m EXCEPT !.script = FALSE]

\* faulty variant: the callback relies on the container it saw when the
\* effect ran and builds the scene whenever the library has loaded
OnLoad_StaleContainer(m, p, sz, container, three) ==
    IF three
    THEN RunLoop(onWindowResize([m EXCEPT !.uniforms = NewUniforms(p),
                                          !.listeners = @ + 1], sz),
                 CurrentLoop(m) + 1, p)
    ELSE m

\* faulty variant: the script element has no onload handler
OnLoad_NoHandler(m, p, sz, container, three) == m

\* script.onload = () => { if (containerRef.current && window.THREE) initThreeJS() }
OnLoad(m, p, sz, container, three) ==
    IF container /\ three THEN initThreeJS(m, p, sz, container, three) ELSE m

\* the function the mount effect returns: cancelAnimationFrame of the stored
\* request, renderer.dispose(), document.head.removeChild(script); removeChild
\* throws NotFoundError when the element is not a child of document.head
Cleanup(m) ==
    LET c == [m EXCEPT !.pending = IF m.animationId # 0
                                   THEN @ \ {m.animationId} ELSE @,
                       !.disposed = IF m.uniforms # NoUniforms THEN TRUE ELSE @]
    IN  IF ~m.script THEN c
        ELSE IF m.scriptInHead THEN [c EXCEPT !.scriptInHead = FALSE]
        ELSE [c EXCEPT !.error = "NotFoundError"]

\* every "resize" listener this instance registered runs: each resizes the
\* renderer and the uniforms of the initThreeJS call that defined it
ResizeListeners(m, sz) ==
    LET cur == IF m.uniforms # NoUniforms THEN onWindowResize(m, sz) ELSE m
    IN  IF m.prev = NoScene THEN cur
        ELSE [cur EXCEPT !.prev = onWindowResize(m.prev, sz)]

(* ------------------------------ effects ------------------------------- *)
\* useEffect(..., [currentStep, progress, totalSteps])
PropsEffect(m, p) ==
    IF m.uniforms # NoUniforms
    THEN [m EXCEPT !.uniforms = CopyProps(m.uniforms, p)]
    ELSE m

\* faulty variant: the !isRipplingRef.current test is dropped
RippleFires_NoInFlightTest(m, p) ==
    p.rippleEffect /\ m.uniforms # NoUniforms

\* if (rippleEffect && sceneRef.current.uniforms && !isRipplingRef.current)
RippleFires(m, p) ==
    p.rippleEffect /\ m.uniforms # NoUniforms /\ ~m.isRipplingRef

\* useEffect(..., [rippleEffect])
RippleTriggerEffect(m, p) ==
    IF RippleFires(m, p)
    THEN [m EXCEPT !.isRipplingRef = TRUE,
                   !.rippleTimeRef = 0,
                   !.uniforms.isRippling = 1,
                   !.uniforms.rippleTime = 0]
    ELSE m

\* if (textAnimation && sceneRef.current.uniforms && !isTextAnimatingRef.current)
TextFires(m, p) ==
    p.textAnimation /\ m.uniforms # NoUniforms /\ ~m.isTextAnimatingRef

\* faulty variant: starting the text timer ends the ripple in flight
TextTriggerEffect_EndsRipple(m, p) ==
    IF TextFires(m, p)
    THEN [m EXCEPT !.isTextAnimatingRef = TRUE,
                   !.textTimeRef = 0,
                   !.uniforms.isTextAnimating = 1,
                   !.uniforms.textTime = 0,
                   !.isRipplingRef = FALSE,
                   !.uniforms.isRippling = 0]
    ELSE m

\* useEffect(..., [textAnimation])
TextTriggerEffect(m, p) ==
    IF TextFires(m, p)
    THEN [m EXCEPT !.isTextAnimatingRef = TRUE,
                   !.textTimeRef = 0,
                   !.uniforms.isTextAnimating = 1,
                   !.uniforms.textTime = 0]
    ELSE m

\* the dependency comparisons React makes between two renders
PropsDepsChanged(old, new) ==
    \/ old.currentStep # new.currentStep
    \/ old.progress # new.progress
    \/ old.totalSteps # new.totalSteps

\* faulty variant: the effect has no dependency array and runs after every render
RippleDepChanged_EveryRender(old, new) == TRUE

RippleDepChanged(old, new) == old.rippleEffect # new.rippleEffect

TextDepChanged(old, new) == old.textAnimation # new.textAnimation

\* the effects of a re-render, in declaration order, each run only when
\* one of its dependencies changed
RunEffects(m, old, new) ==
    LET m1 == IF PropsDepsChanged(old, new) THEN PropsEffect(m, new) ELSE m
        m2 == IF RippleDepChanged(old, new) THEN RippleTriggerEffect(m1, new) ELSE m1
        m3 == IF TextDepChanged(old, new) THEN TextTriggerEffect(m2, new) ELSE m2
    IN  m3

(* ------------------------------ actions ------------------------------- *)
\* how the host flagged the ripple it requests with props p
FlagOf(p) == IF p.isCompleteRipple THEN "completion" ELSE "plain"

\* the props, ripple and text effects of the first commit
MountEffects(m, p) ==
    TextTriggerEffect(RippleTriggerEffect(PropsEffect(m, p), p), p)

\* The effects of the first commit, in declaration order: the mount effect
\* (initThreeJS when window.THREE is loaded, else the script element is
\* appended), then the props, ripple and text effects. Under Strict Mode
\* React then runs the cleanup and all four effects a second time.
Mount ==
    /\ phase = "rendered"
    /\ phase' = "mounted"
    /\ LET once  == MountEffects(MountEffect(Machine, first, rect, TRUE, THREE), props)
           twice == MountEffects(MountEffect(Cleanup(once), first, rect, TRUE, THREE), props)
           m     == IF strict THEN twice ELSE once
       IN  /\ SetMachine(m)
           /\ rippleFlag' = IF m.isRipplingRef THEN FlagOf(props) ELSE rippleFlag
    /\ ticks' = IF THREE THEN 1 ELSE 0
    /\ idleTicks' = IF THREE THEN idleTicks + 1 ELSE idleTicks
    /\ UNCHANGED << steps, strict, glslCompiles, other, props, first, THREE, rect, renders, ignoredEdge,
                    heldRequest >>

\* The load event of a script element an effect run appended: window.THREE
\* is defined from now on. The event fires whether or not the cleanup has
\* removed the element from document.head in the meantime.
ScriptLoad ==
    /\ loads > 0
    /\ THREE' = TRUE
    /\ LET container == phase # "unmounted"
           m == OnLoad(Machine, first, rect, container, TRUE)
       IN  /\ SetMachine([m EXCEPT !.loads = @ - 1])
           /\ ticks' = IF container THEN 1 ELSE ticks
           /\ idleTicks' = IF container /\ ~isRipplingRef THEN idleTicks + 1
                                                         ELSE idleTicks
    /\ UNCHANGED << phase, steps, strict, glslCompiles, other, props, first, rect, renders, rippleFlag,
                    ignoredEdge, heldRequest >>

\* React removes the component: containerRef.current becomes null, the
\* container leaves the document, and the mount effect's cleanup runs.
Unmount ==
    /\ phase = "mounted"
    /\ phase' = "unmounted"
    /\ rect' = DetachedRect
    /\ SetMachine(Cleanup(Machine))
    /\ UNCHANGED << steps, strict, glslCompiles, other, props, first, THREE, ticks, idleTicks, renders,
                    rippleFlag, ignoredEdge, heldRequest >>

\* The host re-renders the component with props np; React commits them and
\* runs the effects whose dependencies changed.
Render(np) ==
    /\ phase = "mounted"
    /\ renders < (IF strict THEN MaxStrictRenders ELSE MaxRenders)
    /\ renders' = renders + 1
    /\ props' = np
    /\ LET m1 == IF PropsDepsChanged(props, np) THEN PropsEffect(Machine, np)
                                               ELSE Machine
           edge == ~props.rippleEffect /\ np.rippleEffect
       IN  /\ SetMachine(RunEffects(Machine, props, np))
           /\ rippleFlag' = IF RippleDepChanged(props, np) /\ RippleFires(m1, np)
                            THEN FlagOf(np) ELSE rippleFlag
           /\ ignoredEdge' = (ignoredEdge \/ (edge /\ isRipplingRef))
           /\ heldRequest' = (heldRequest \/ (/\ props.rippleEffect
                                               /\ np.rippleEffect
                                               /\ hasUniforms
                                               /\ ~isRipplingRef))
    /\ UNCHANGED << phase, steps, strict, glslCompiles, other, first, THREE, rect, ticks, idleTicks >>

\* A display frame: the browser runs every requested frame callback, in the
\* order of the requests; each reschedules itself, updates its uniforms and
\* draws.
Tick ==
    /\ pending # {}
    /\ isRipplingRef \/ idleTicks < MaxIdleTicks
    /\ textTimeRef < MaxTextTicks * TextInc
    /\ ticks' = IF CurrentLoop(Machine) \in pending THEN ticks + 1 ELSE ticks
    /\ idleTicks' = IF isRipplingRef THEN idleTicks ELSE idleTicks + 1
    /\ LET a == IF 1 \in pending THEN RunLoop(Machine, 1, first) ELSE Machine
           b == IF 2 \in pending THEN RunLoop(a, 2, first) ELSE a
       IN  SetMachine(b)
    /\ UNCHANGED << phase, steps, strict, glslCompiles, other, props, first, THREE, rect, renders,
                    rippleFlag, ignoredEdge, heldRequest >>

\* The window fires "resize"; sz is the container's box while it is in the
\* document. The listeners exist once initThreeJS has run and are never
\* removed.
Resize(sz) ==
    /\ phase # "rendered"
    /\ rect' = IF phase = "unmounted" THEN DetachedRect ELSE sz
    /\ SetMachine(IF listeners > 0 THEN ResizeListeners(Machine, rect')
                                   ELSE Machine)
    /\ UNCHANGED << phase, steps, strict, glslCompiles, other, props, first, THREE, ticks, idleTicks,
                    renders, rippleFlag, ignoredEdge, heldRequest >>

Next ==
    \/ Mount
    \/ ScriptLoad
    \/ Unmount
    \/ \E np \in HostProps : Render(np)
    \/ Tick
    \/ \E sz \in Sizes : Resize(sz)

Spec == Init /\ [][Next]_vars

\* the same component in a development build: React Strict Mode runs the
\* effects of the mount twice
InitStrict == Setup /\ strict = TRUE /\ glslCompiles = TRUE /\ other = NoInstance

SpecStrict == InitStrict /\ [][Next]_vars

\* behaviours with at most MaxFairRenders host re-renders, in which the
\* browser delivers the load event of an appended script element
NextFair ==
    \/ Mount
    \/ ScriptLoad
    \/ Unmount
    \/ \E np \in HostProps : renders < MaxFairRenders /\ Render(np)
    \/ Tick
    \/ \E sz \in Sizes : Resize(sz)

FairSpec == Init /\ [][NextFair]_vars /\ WF_vars(ScriptLoad)

\* the same behaviours with no assumption on the delivery of the load event
SpecFewRenders == Init /\ [][NextFair]_vars

\* animate, one statement group per step, for an instance with one loop.
\* A frame callback runs to completion: no other handler runs between its
\* steps.
StepRequest ==
    /\ steps = <<>>
    /\ pending = {CurrentLoop(Machine)}
    /\ isRipplingRef \/ idleTicks < MaxIdleTicks
    /\ textTimeRef < MaxTextTicks * TextInc
    /\ steps' = <<"request">>
    /\ idleTicks' = IF isRipplingRef THEN idleTicks ELSE idleTicks + 1
    /\ SetMachine([Machine EXCEPT !.animationId = CurrentLoop(Machine),
                                  !.pending = @ \cup {CurrentLoop(Machine)}])
    /\ UNCHANGED << phase, strict, glslCompiles, other, props, first, THREE, rect,
                    ticks, renders, rippleFlag, ignoredEdge, heldRequest >>

StepAdvance ==
    /\ steps = <<"request">>
    /\ steps' = <<"request", "advance">>
    /\ SetMachine(AdvanceState(Machine, first))
    /\ UNCHANGED << phase, strict, glslCompiles, other, props, first, THREE, rect,
                    ticks, idleTicks, renders, rippleFlag, ignoredEdge,
                    heldRequest >>

StepCopy ==
    /\ steps = <<"request", "advance">>
    /\ steps' = <<"request", "advance", "copy">>
    /\ SetMachine(CopyState(Machine, first))
    /\ UNCHANGED << phase, strict, glslCompiles, other, props, first, THREE, rect,
                    ticks, idleTicks, renders, rippleFlag, ignoredEdge,
                    heldRequest >>

\* renderer.render(scene, camera): the callback returns
StepDraw ==
    /\ steps = <<"request", "advance", "copy">>
    /\ steps' = <<>>
    /\ ticks' = ticks + 1
    /\ UNCHANGED << phase, strict, glslCompiles, other, props, first, THREE, script,
                    scriptInHead, loads, rect, rendererSize, uniforms,
                    animationId, pending, prev, disposed, listeners, error,
                    rippleTimeRef, isRipplingRef, textTimeRef,
                    isTextAnimatingRef, noMoreRingsRef, hasCompletedRef,
                    idleTicks, renders, rippleFlag, ignoredEdge, heldRequest >>

NextSteps ==
    \/ steps = <<>> /\ Mount
    \/ steps = <<>> /\ ScriptLoad
    \/ steps = <<>> /\ Unmount
    \/ \E np \in HostProps : steps = <<>> /\ renders < MaxFairRenders /\ Render(np)
    \/ \E sz \in Sizes : steps = <<>> /\ Resize(sz)
    \/ StepRequest
    \/ StepAdvance
    \/ StepCopy
    \/ StepDraw

SpecSteps == Init /\ [][NextSteps]_vars

(* ------------------- two instances in the same page ------------------- *)
\* the refs and sceneRef of an instance React has just rendered for the
\* first time: the initial values of the useRef calls
FreshMachine ==
    [ uniforms |-> NoUniforms,
      rendererSize |-> <<0, 0>>,
      rippleTimeRef |-> 0,
      isRipplingRef |-> FALSE,
      textTimeRef |-> 0,
      isTextAnimatingRef |-> FALSE,
      noMoreRingsRef |-> FALSE,
      hasCompletedRef |-> FALSE,
      animationId |-> 0,
      pending |-> {},
      prev |-> NoScene,
      disposed |-> FALSE,
      listeners |-> 0,
      script |-> FALSE,
      scriptInHead |-> FALSE,
      loads |-> 0,
      error |-> "none" ]

\* the default values of the props: both instances are first rendered
\* with no prop given
DefaultProps ==
    [ progress |-> 0, currentStep |-> 1, totalSteps |-> 3,
      rippleEffect |-> FALSE, textAnimation |-> FALSE,
      isCompleteRipple |-> FALSE ]

\* the props the hosts of the two instances supply in a re-render: no
\* change, a ripple request, a text request, a progress change
TwoProps ==
    { DefaultProps,
      [DefaultProps EXCEPT !.rippleEffect = TRUE],
      [DefaultProps EXCEPT !.textAnimation = TRUE],
      [DefaultProps EXCEPT !.progress = 50, !.currentStep = 2, !.totalSteps = 4] }

\* faulty variant: the six refs are module-level variables, so what a
\* handler of one instance stores in them is what the peer instance reads
Peer_ModuleLevelRefs(after, peer) ==
    [peer EXCEPT !.rippleTimeRef = after.rippleTimeRef,
                 !.isRipplingRef = after.isRipplingRef,
                 !.textTimeRef = after.textTimeRef,
                 !.isTextAnimatingRef = after.isTextAnimatingRef,
                 !.noMoreRingsRef = after.noMoreRingsRef,
                 !.hasCompletedRef = after.hasCompletedRef]

\* the mutable state of the peer instance once a handler of an instance has
\* left that instance's state as `after`: every ref is a useRef of the
\* component function and every handler a closure of one render of one
\* instance, so the peer's state is the one it had
Peer(after, peer) == peer

InitTwo ==
    /\ Setup
    /\ strict = FALSE
    /\ glslCompiles = TRUE
    /\ props = DefaultProps
    /\ other = [ phase |-> "rendered", props |-> DefaultProps,
                 first |-> Closure(DefaultProps), m |-> FreshMachine,
                 ticks |-> 0, renders |-> 0 ]

\* the second instance's first commit: the same effects, on its own refs;
\* window.THREE is the one global both instances read
OtherMount ==
    /\ other.phase = "rendered"
    /\ LET m == MountEffects(MountEffect(other.m, other.first, InitialSize,
                                         TRUE, THREE), other.props)
       IN  /\ other' = [other EXCEPT !.phase = "mounted", !.m = m]
           /\ SetMachine(Peer(m, Machine))
    /\ UNCHANGED << phase, steps, strict, glslCompiles, props, first, THREE,
                    rect, ticks, idleTicks, renders, rippleFlag, ignoredEdge,
                    heldRequest >>

\* the load event of the script element the second instance appended
OtherScriptLoad ==
    /\ other.m.loads > 0
    /\ THREE' = TRUE
    /\ LET m == OnLoad(other.m, other.first, InitialSize,
                       other.phase # "unmounted", TRUE)
       IN  /\ other' = [other EXCEPT !.m = [m EXCEPT !.loads = @ - 1]]
           /\ SetMachine(Peer(m, Machine))
    /\ UNCHANGED << phase, steps, strict, glslCompiles, props, first, rect,
                    ticks, idleTicks, renders, rippleFlag, ignoredEdge,
                    heldRequest >>

\* React removes the second instance
OtherUnmount ==
    /\ other.phase = "mounted"
    /\ LET m == Cleanup(other.m)
       IN  /\ other' = [other EXCEPT !.phase = "unmounted", !.m = m]
           /\ SetMachine(Peer(m, Machine))
    /\ UNCHANGED << phase, steps, strict, glslCompiles, props, first, THREE,
                    rect, ticks, idleTicks, renders, rippleFlag, ignoredEdge,
                    heldRequest >>

\* the second instance's host re-renders it with props np
OtherRender(np) ==
    /\ other.phase = "mounted"
    /\ other.renders < MaxTwoRenders
    /\ LET m == RunEffects(other.m, other.props, np)
       IN  /\ other' = [other EXCEPT !.props = np, !.m = m,
                                     !.renders = @ + 1]
           /\ SetMachine(Peer(m, Machine))
    /\ UNCHANGED << phase, steps, strict, glslCompiles, props, first, THREE,
                    rect, ticks, idleTicks, renders, rippleFlag, ignoredEdge,
                    heldRequest >>

\* a frame callback of the second instance's loop
OtherTick ==
    /\ other.m.pending # {}
    /\ other.ticks < MaxTwoTicks
    /\ LET m == RunLoop(other.m, CurrentLoop(other.m), other.first)
       IN  /\ other' = [other EXCEPT !.m = m, !.ticks = @ + 1]
           /\ SetMachine(Peer(m, Machine))
    /\ UNCHANGED << phase, steps, strict, glslCompiles, props, first, THREE,
                    rect, ticks, idleTicks, renders, rippleFlag, ignoredEdge,
                    heldRequest >>

\* two instances in one page, each with at most MaxTwoRenders re-renders
\* and MaxTwoTicks frames after its initialization
NextTwo ==
    \/ Mount
    \/ ScriptLoad
    \/ Unmount
    \/ \E np \in TwoProps : renders < MaxTwoRenders /\ Render(np)
    \/ ticks <= MaxTwoTicks /\ Tick
    \/ OtherMount
    \/ OtherScriptLoad
    \/ OtherUnmount
    \/ \E np \in TwoProps : OtherRender(np)
    \/ OtherTick

SpecTwo == InitTwo /\ [][NextTwo]_vars

\* The function the mount effect returned is called once more after the
\* unmount has run it.
CleanupAgain ==
    /\ phase = "unmounted"
    /\ error = "none"
    /\ SetMachine(Cleanup(Machine))
    /\ UNCHANGED << phase, steps, strict, glslCompiles, other, props, first, THREE, rect,
                    ticks, idleTicks, renders, rippleFlag, ignoredEdge,
                    heldRequest >>

NextDispose == Next \/ CleanupAgain

SpecDispose == Init /\ [][NextDispose]_vars

\* the same component on a GPU whose driver may reject the shaders
InitShader == Setup /\ strict = FALSE /\ glslCompiles \in BOOLEAN /\ other = NoInstance

SpecShader == InitShader /\ [][Next]_vars


(* ------------------------- properties --------------------------------- *)
\* a step in which animate ran (and drew)
IsTick == ticks' = ticks + 1

\* a step in which the host re-rendered the component
IsRender == renders' = renders + 1

\* the ripple state: the refs and, once they exist, the two uniforms
RippleView ==
    IF hasUniforms
    THEN << isRipplingRef, rippleTimeRef, uniforms.isRippling, uniforms.rippleTime >>
    ELSE << isRipplingRef, rippleTimeRef >>

\* the text timer: the refs and, once they exist, the two uniforms
TextView ==
    IF hasUniforms
    THEN << isTextAnimatingRef, textTimeRef, uniforms.isTextAnimating, uniforms.textTime >>
    ELSE << isTextAnimatingRef, textTimeRef >>

\* the renderer is frozen: the shader's test freezeTime > 0.0
Frozen == hasUniforms /\ uniforms.freezeTime # 0

\* C1: a false->true edge of rippleEffect that arrives while isRippling is 1
\* starts no second ripple: the ripple refs and uniforms, rippleTime
\* included, keep the values they had before the edge.
C1_OneRippleInFlight ==
    [][ ( /\ hasUniforms
          /\ uniforms.isRippling = 1
          /\ ~props.rippleEffect
          /\ props'.rippleEffect )
        => RippleView' = RippleView ]_vars

\* C1 witness: an edge has arrived during a ripple, and a ripple that has
\* advanced is in flight.
C1_Witness ==
    /\ ignoredEdge
    /\ isRipplingRef
    /\ rippleTimeRef > 0
    /\ props.rippleEffect

\* C2: once a ripple whose request the host raised together with
\* isCompleteRipple = true has completed, freezeTime is nonzero and equals
\* time (the value time had at completion, kept after every later tick).
C2_CompletionRippleFreezes ==
    ( /\ hasUniforms
      /\ rippleFlag = "completion"
      /\ ~isRipplingRef )
    => ( /\ uniforms.freezeTime # 0
         /\ uniforms.freezeTime = uniforms.time )

\* C3: in every state of a frozen renderer no ripple is in flight: the
\* isRippling uniform is 0 and the ripple flag is clear, whatever edges of
\* rippleEffect arrived after the freeze.
C3_FrozenIsTerminal ==
    Frozen => ( uniforms.isRippling = 0 /\ ~isRipplingRef )

\* C4: once freezeTime is nonzero, no step (tick, ripple or text request,
\* progress / currentStep / totalSteps change, resize) changes time.
C4_FreezeIsPermanent ==
    [][ Frozen => uniforms'.time = uniforms.time ]_vars

\* C4 witness: a frozen renderer on which, after the freeze, a ripple has
\* been requested and has advanced, the text timer has been started and
\* has advanced, and the host's progress differs from the mount's.
C4_Witness ==
    /\ Frozen
    /\ isRipplingRef
    /\ rippleTimeRef > 0
    /\ isTextAnimatingRef
    /\ textTimeRef > 0
    /\ props.progress # first.progress

\* C5: a ripple whose request fired with isCompleteRipple = false on a
\* renderer that is not frozen sets isRippling to 1 when it fires, keeps it 1
\* on every tick until rippleTime reaches 1.0, sets it to 0 on that tick,
\* and leaves freezeTime 0 throughout.
C5_PlainRippleReturnsToNormal ==
    [][ /\ ( /\ ~isRipplingRef
             /\ isRipplingRef'
             /\ ~props'.isCompleteRipple )
           => uniforms'.isRippling = 1
        /\ ( /\ IsTick
             /\ isRipplingRef
             /\ rippleFlag = "plain"
             /\ uniforms.freezeTime = 0 )
           => ( /\ uniforms'.freezeTime = 0
                /\ uniforms'.isRippling =
                     IF rippleTimeRef + RippleInc >= RippleEnd THEN 0 ELSE 1 ) ]_vars

\* C6: the edge-triggered inputs fire once per edge.  A ripple starts only
\* in a step in which rippleEffect goes from false to true (the first
\* render supplying true counts as such an edge); a re-render with an
\* unchanged rippleEffect changes nothing of the ripple state, and one with
\* an unchanged textAnimation nothing of the text timer; and once the text
\* timer runs, no step stops it or lowers textTime.
C6_EdgeTriggered ==
    [][ /\ ( ~isRipplingRef /\ isRipplingRef' )
           => ( /\ props'.rippleEffect
                /\ ( ~props.rippleEffect \/ phase = "rendered" ) )
        /\ ( IsRender /\ props'.rippleEffect = props.rippleEffect )
           => RippleView' = RippleView
        /\ ( IsRender /\ props'.textAnimation = props.textAnimation )
           => TextView' = TextView
        /\ isTextAnimatingRef
           => ( /\ isTextAnimatingRef'
                /\ textTimeRef' >= textTimeRef
                /\ uniforms'.isTextAnimating = 1
                /\ uniforms'.textTime >= uniforms.textTime ) ]_vars

\* C6 witness: a ripple has fired and finished, and the host has re-rendered
\* with rippleEffect still true while no ripple was in flight; none is in
\* flight now.
C6_Witness ==
    /\ heldRequest
    /\ rippleFlag # "none"
    /\ hasUniforms
    /\ props.rippleEffect
    /\ ~isRipplingRef
    /\ uniforms.rippleTime >= RippleEnd

\* C7: whenever no ripple is in flight (the isRippling uniform is 0) the
\* rippleTime uniform fed to the shader is 0.
C7_RippleUniformsReset ==
    ( hasUniforms /\ uniforms.isRippling = 0 ) => uniforms.rippleTime = 0

\* C8: freezeTime changes only from 0 to a nonzero value, and only in a
\* tick in which a ripple the host flagged as the completion ripple
\* finishes.
C8_FreezeTimeWriteOnce ==
    [][ ( /\ hasUniforms
          /\ uniforms'.freezeTime # uniforms.freezeTime )
        => ( /\ uniforms.freezeTime = 0
             /\ uniforms'.freezeTime # 0
             /\ IsTick
             /\ isRipplingRef
             /\ ~isRipplingRef'
             /\ rippleFlag = "completion" ) ]_vars

\* C9: after every run of animate (at its draw call) the progress,
\* currentStep and totalSteps uniforms equal the host's latest props.
C9_LatestHostValuesDrawn ==
    [][ IsTick
        => ( /\ uniforms'.progress = props'.progress
             /\ uniforms'.currentStep = props'.currentStep
             /\ uniforms'.totalSteps = props'.totalSteps ) ]_vars

\* C10: as long as no ripple request has fired (in particular when none was
\* ever made), after n runs of animate time is its initial value plus n
\* times the normal increment, and isRippling and freezeTime are 0.
C10_AmbientAdvance ==
    ( hasUniforms /\ rippleFlag = "none" )
    => ( /\ uniforms.time = TimeInit + ticks * AnimationSpeed
         /\ uniforms.isRippling = 0
         /\ uniforms.freezeTime = 0 )

\* C10 witness: five runs of animate and no ripple: time has advanced by
\* five normal increments.
C10_Witness ==
    /\ hasUniforms
    /\ rippleFlag = "none"
    /\ ~props.rippleEffect
    /\ ticks = 5
    /\ uniforms.time = TimeInit + 5 * AnimationSpeed

\* C11: for one mounted instance at most one frame callback is requested at
\* any time, whatever the order of mount-effect runs, script load events,
\* frames, resizes and cleanup.
C11_SingleTickStream ==
    pending = {} \/ pending = {1} \/ pending = {2}

\* C12: once the unmount cleanup has run no frame callback of the instance
\* is left requested, so no further tick executes.
C12_NoTickAfterDispose ==
    phase = "unmounted" => pending = {}

\* C13: after the teardown of an unmount no "resize" listener of the
\* instance remains registered on window.
C13_TeardownRemovesListener ==
    phase = "unmounted" => listeners = 0

\* C14: a step taken after the unmount cleanup leaves the resolution uniform
\* and the renderer's surface size as they were at dispose time, and raises
\* no error.
C14_ResizeAfterDisposeNoOp ==
    [][ ( phase = "unmounted" /\ hasUniforms )
        => ( /\ uniforms'.resolution = uniforms.resolution
             /\ rendererSize' = rendererSize
             /\ error' = "none" ) ]_vars

\* C15: running the cleanup a second time raises no error.
C15_DisposeIdempotent ==
    error = "none"

\* C16: from initialization on, the resolution uniform of every scene equals
\* the pixel-buffer size of its renderer's canvas, in every state a draw can
\* happen in.
C16_ResolutionMatchesSurface ==
    /\ hasUniforms => uniforms.resolution = rendererSize
    /\ prev # NoScene => prev.uniforms.resolution = prev.rendererSize

\* a ripple is in flight on a scene built at mount from the initial box and
\* since resized to 1920 x 1080
C16_Witness ==
    /\ phase = "mounted"
    /\ ~script
    /\ isRipplingRef
    /\ rippleTimeRef >= 2 * RippleInc
    /\ rect = <<1920, 1080>>
    /\ uniforms.resolution = CanvasSize(<<1920, 1080>>)

\* C17: when the listener has handled a resize of the mounted container, the
\* resolution uniform the next draw reads is the canvas size of the new box,
\* and differs from the previous one whenever the box changed.
C17_ResizeRoundTrip ==
    [][ ( /\ phase = "mounted" /\ phase' = "mounted"
          /\ hasUniforms
          /\ rect' # rect )
        => ( /\ uniforms'.resolution = CanvasSize(rect')
             /\ uniforms'.resolution # uniforms.resolution
             /\ rendererSize' = uniforms'.resolution ) ]_vars

\* the scene built at mount from the initial box has been resized to
\* 1920 x 1080 between draws, with no ripple ever requested
C17_Witness ==
    /\ phase = "mounted"
    /\ ~script
    /\ ticks >= 3
    /\ rippleFlag = "none"
    /\ rect = <<1920, 1080>>
    /\ rect # InitialSize
    /\ uniforms.resolution = CanvasSize(<<1920, 1080>>)

\* C18: a mount effect that finds window.THREE missing, and a load callback
\* that finds the container gone, create no uniforms, no renderer, no
\* listener and no frame request, and raise no error.
C18_UnavailableInitIsNoOp ==
    [][ ( \/ phase = "rendered" /\ ~THREE /\ phase' = "mounted"
          \/ phase = "unmounted" /\ loads' < loads )
        => ( /\ uniforms' = uniforms
             /\ rendererSize' = rendererSize
             /\ prev' = prev
             /\ listeners' = listeners
             /\ pending' = pending
             /\ animationId' = animationId
             /\ error' = "none" ) ]_vars

\* the library loaded after the unmount of an instance that had appended
\* the script element; nothing was built
C18_Witness ==
    /\ phase = "unmounted"
    /\ script
    /\ THREE
    /\ loads = 0
    /\ ~hasUniforms
    /\ listeners = 0
    /\ pending = {}

\* C19: when window.THREE is loaded at mount the first run of animate
\* happens during the mount; when it is not, and the view stays mounted,
\* the load callback initializes and the first run of animate eventually
\* happens.
C19_LoopEventuallyStarts ==
    /\ []( ( phase = "mounted" /\ ~script ) => animationId # 0 )
    /\ ( ( phase = "mounted" /\ script )
         ~> ( animationId # 0 \/ phase = "unmounted" ) )

\* the loop of an instance that had to load the library is running
C19_Witness ==
    /\ phase = "mounted"
    /\ script
    /\ loads = 0
    /\ animationId # 0
    /\ pending # {}
    /\ ticks >= 2

\* C20: an instance whose shaders fail to compile never requests a frame
\* callback and never draws.
C20_CompileFailureIsFatal ==
    ~glslCompiles => ( pending = {} /\ animationId = 0 /\ ticks = 0 )

\* C21: when a tick issues its draw call, the statement groups that have
\* run in it are the copy of the host's values and then the advance of the
\* state machine; the next tick is requested after the draw.
C21_TickStepOrder ==
    [][ ( IsTick /\ steps # <<>> ) => steps = <<"copy", "advance">> ]_vars

\* C22: a ripple that a re-render starts has its accumulator at 0, every
\* tick that begins with the ripple in flight adds the same increment, and the tick that
\* ends it is the 25th: the one that begins with 24 increments
\* accumulated; no other step touches the accumulator.
C22_FixedRippleDuration ==
    [][ /\ ( phase = "mounted" /\ ~isRipplingRef /\ isRipplingRef' )
           => rippleTimeRef' = 0
        /\ ( isRipplingRef /\ ~IsTick )
           => ( isRipplingRef' /\ rippleTimeRef' = rippleTimeRef )
        /\ ( isRipplingRef /\ IsTick )
           => IF rippleTimeRef = 24 * RippleInc
              THEN ~isRipplingRef' /\ uniforms'.isRippling = 0
              ELSE /\ isRipplingRef'
                   /\ uniforms'.isRippling = 1
                   /\ rippleTimeRef' = rippleTimeRef + RippleInc
                   /\ uniforms'.rippleTime = rippleTimeRef' ]_vars

\* C23: a tick that begins with isRippling = 1 and ends with freezeTime = 0
\* adds the ripple speed to time, a tick that begins with isRippling = 0
\* and ends with freezeTime = 0 adds the normal speed, and the first is
\* the greater.
C23_RippleAccelerates ==
    [][ ( IsTick /\ hasUniforms /\ uniforms'.freezeTime = 0 )
        => ( /\ uniforms.isRippling = 1
                => uniforms'.time = uniforms.time + RippleAnimationSpeed
             /\ uniforms.isRippling = 0
                => uniforms'.time = uniforms.time + AnimationSpeed
             /\ RippleAnimationSpeed > AnimationSpeed ) ]_vars

\* what a run shows apart from the text timer: time, the ripple and the
\* freeze
NonText(m) ==
    << m.uniforms.time, m.uniforms.rippleTime, m.uniforms.isRippling,
       m.uniforms.freezeTime, m.rippleTimeRef, m.isRipplingRef,
       m.hasCompletedRef, m.noMoreRingsRef >>

\* machine m had no text request ever been made
NoText(m) ==
    [m EXCEPT !.isTextAnimatingRef = FALSE,
              !.textTimeRef = 0,
              !.uniforms.isTextAnimating = 0,
              !.uniforms.textTime = 0]

\* props p without the text request
NoTextRequest(p) == [p EXCEPT !.textAnimation = FALSE]

\* C24: with the text timer running or requested, a tick and a host
\* re-render leave time, rippleTime, isRippling and
\* freezeTime as the same handler leaves them from the state and with the
\* props that carry no text request; and once the text timer runs, every
\* tick adds the same increment to textTime and no other step changes it
\* or stops it.
C24_TextTimerIndependent ==
    [][ /\ ( IsTick /\ hasUniforms /\ isTextAnimatingRef )
           => NonText(Machine') = NonText(animate(NoText(Machine), first))
        /\ ( IsRender /\ hasUniforms
                      /\ ( isTextAnimatingRef \/ props.textAnimation
                                              \/ props'.textAnimation ) )
           => NonText(Machine')
                = NonText(RunEffects(NoText(Machine), NoTextRequest(props),
                                     NoTextRequest(props')))
        /\ ( isTextAnimatingRef /\ IsTick )
           => ( /\ isTextAnimatingRef'
                /\ textTimeRef' = textTimeRef + TextInc
                /\ uniforms'.textTime = textTimeRef' )
        /\ ( isTextAnimatingRef /\ ~IsTick )
           => ( /\ isTextAnimatingRef'
                /\ textTimeRef' = textTimeRef )
        /\ ( ~isTextAnimatingRef /\ isTextAnimatingRef' )
           => textTimeRef' = 0 ]_vars

\* the text timer was started during a ripple and has run for two ticks of
\* it, and the ripple is still in flight
C24_Witness ==
    /\ hasUniforms
    /\ isTextAnimatingRef
    /\ textTimeRef = 2 * TextInc
    /\ uniforms.textTime = textTimeRef
    /\ isRipplingRef
    /\ rippleTimeRef = 3 * RippleInc
    /\ uniforms.isRippling = 1

\* C25: a host re-render by itself starts no ripple and no text timer: a
\* request takes effect only in a tick, so one raised and withdrawn between
\* two ticks is lost.
C25_SignalsLatchedByTicks ==
    [][ IsRender => ( /\ isRipplingRef' = isRipplingRef
                      /\ isTextAnimatingRef' = isTextAnimatingRef ) ]_vars

\* the value ranges of the uniforms
UniformRanges(u) ==
    /\ u.isRippling \in {0, 1}
    /\ u.isTextAnimating \in {0, 1}
    /\ u.rippleTime >= 0
    /\ u.rippleTime <= RippleEnd
    /\ u.textTime >= 0
    /\ u.freezeTime >= 0

\* C26: in every reachable state the uniforms are in their ranges, and no
\* step lowers the time uniform of the instance.
C26_UniformRanges ==
    /\ []( hasUniforms => UniformRanges(uniforms) )
    /\ [][ hasUniforms => uniforms'.time >= uniforms.time ]_vars

\* the UniformStore and the state-machine fields of the first instance
InstanceView ==
    << uniforms, rippleTimeRef, isRipplingRef, textTimeRef,
       isTextAnimatingRef, noMoreRingsRef, hasCompletedRef >>

C28_EarlyRequestDropped ==
    /\ []( ~hasUniforms => ( /\ ~isRipplingRef
                             /\ ~isTextAnimatingRef
                             /\ rippleFlag = "none" ) )
    /\ [][ /\ ( phase = "mounted" /\ ~hasUniforms /\ hasUniforms' )
              => ( /\ ~isRipplingRef'
                   /\ uniforms'.isRippling = 0
                   /\ ~isTextAnimatingRef'
                   /\ uniforms'.isTextAnimating = 0 )
           /\ ( phase = "mounted" /\ ~isRipplingRef /\ isRipplingRef' )
              => ( ~props.rippleEffect /\ props'.rippleEffect )
           /\ ( phase = "mounted" /\ ~isTextAnimatingRef /\ isTextAnimatingRef' )
              => ( ~props.textAnimation /\ props'.textAnimation ) ]_vars

\* the library loaded late while the host held both requests true: the
\* loop runs, and neither the ripple nor the text timer has started
C28_Witness ==
    /\ phase = "mounted"
    /\ script
    /\ loads = 0
    /\ hasUniforms
    /\ ticks >= 2
    /\ props.rippleEffect
    /\ props.textAnimation
    /\ ~isRipplingRef
    /\ ~isTextAnimatingRef
    /\ uniforms.isRippling = 0
    /\ uniforms.isTextAnimating = 0

\* C29: in every reachable state the freezeTime uniform is nonzero exactly
\* when hasCompletedRef is set.
C29_FrozenTestAgrees ==
    hasUniforms => ( uniforms.freezeTime > 0 <=> hasCompletedRef )

\* C30: in every state a draw can happen in, the isRippling uniform of the
\* scene in sceneRef is 1 exactly when isRipplingRef is set, and while it
\* is set the rippleTime uniform equals rippleTimeRef.
C30_UniformsMirrorRefs ==
    hasUniforms
    => ( /\ uniforms.isRippling = 1 <=> isRipplingRef
         /\ isRipplingRef => uniforms.rippleTime = rippleTimeRef )
====
